---- MODULE Spec2Model ----
(***************************************************************************)
(* The PDF annotation sample docs/samples/python/example_pdf_annotation.   *)
(* The notebook is a linear script of three code cells:                    *)
(*   cell 1  extracts the text containers of every page, analyzes each one *)
(*           and slices the container's characters by every result,        *)
(*   cell 2  folds the character boxes of every slice into one box,        *)
(*   cell 3  turns every box into a highlight, assigns the highlights to   *)
(*           the first page and saves the document.                        *)
(* The cells run in order and an uncaught exception stops the run.         *)
(* pdfminer (extract_pages) and the Presidio analyzer are collaborators:   *)
(* what they return is chosen nondeterministically from bounded sets.      *)
(***************************************************************************)
EXTENDS Integers, Sequences, FiniteSets

\* ---------------------------------------------------------------- bounds
\* Pages of the document.
MaxPages == 2
\* Detection results of the whole document.
MaxResults == 2
\* LTChar glyphs of one text container in the pipeline specification.
MaxBlockGlyphs == 1
\* Largest page coordinate, and glyphs of a container, in SpecMerge.
MaxCoord == 1
MaxGlyphs == 2

EntityTypes == {"PERSON", "EMAIL_ADDRESS"}

\* ------------------------------------------------------------- rectangles
\* A bbox is the tuple (x0, y0, x1, y1); Python's index k is k+1 here.
Coord == 0..MaxCoord
Rects == {r \in Coord \X Coord \X Coord \X Coord : r[1] <= r[3] /\ r[2] <= r[4]}

min(a, b) == IF a <= b THEN a ELSE b
max(a, b) == IF a >= b THEN a ELSE b

\* Plausible faults of combine_rect.
\* the first box's min-corner with the last box's max-corner
combine_rect_corners(rectA, rectB) ==
    <<rectA[1], rectA[2], rectB[3], rectB[4]>>
\* endY taken with min instead of max
combine_rect_minEndY(rectA, rectB) ==
    <<min(rectA[1], rectB[1]), min(rectA[2], rectB[2]),
      max(rectA[3], rectB[3]), min(rectA[4], rectB[4])>>
\* endX overwritten by the second box
combine_rect_lastEndX(rectA, rectB) ==
    <<min(rectA[1], rectB[1]), min(rectA[2], rectB[2]),
      rectB[3], max(rectA[4], rectB[4])>>

combine_rect(rectA, rectB) ==
    <<min(rectA[1], rectB[1]), min(rectA[2], rectB[2]),
      max(rectA[3], rectB[3]), max(rectA[4], rectB[4])>>

\* Python's s[start:end] for 0 <= start, 0 <= end: both ends are clamped to
\* len(s) and an empty range gives the empty list; it never raises.
Slice(s, start, end) ==
    LET lo == min(start, Len(s))
        hi == min(end, Len(s))
    IN  IF lo >= hi THEN <<>> ELSE SubSeq(s, lo + 1, hi)

\* --------------------------------------------------- collaborators' outputs
\* Glyph boxes of a container in the pipeline specification: n characters on
\* one line, each 10 wide and 12 high, on a baseline at y = 5.
LineGlyphs(n) == [t \in 1..n |-> <<10 * (t - 1), 5, 10 * t, 17>>]
LineBlocks == {LineGlyphs(n) : n \in 0..MaxBlockGlyphs}

\* The lists of at most n elements of S.
ListsUpTo(S, n) == UNION {[1..k -> S] : k \in 0..n}

\* Glyph boxes of a container in SpecMerge: any boxes in any placement.
FreeBlocks == ListsUpTo(Rects, MaxGlyphs) \ {<<>>}

\* A RecognizerResult for a text of textLen characters.
Results(textLen) ==
    {[start |-> s, end |-> e, entity_type |-> t] :
        s \in 0..textLen, e \in 0..textLen, t \in EntityTypes}

\* ------------------------------------------------------------------ state
VARIABLES
    pc,                       \* the statement the script is at
    page,                     \* pages extract_pages has yielded so far
    text_to_anonymize,        \* cell 1: the last container's text, as its class
    analyzed_character_sets,  \* cell 1: {"characters", "result"} entries
    detections,               \* history: where each entry came from
    completeBoundingBox,      \* cell 2: the accumulator
    merged,                   \* cell 2: characters of the entry merged so far
    analyzed_bounding_boxes,  \* cell 2: {"boundingBox", "result"} entries
    annotations,              \* cell 3: the highlight dictionaries
    Annots,                   \* pdf.pages[p - 1].Annots of every page p
    saved,                    \* times pdf.save has written the output file
    err                       \* the uncaught exception, if any

vars == <<pc, page, text_to_anonymize, analyzed_character_sets, detections, completeBoundingBox,
          merged, analyzed_bounding_boxes, annotations, Annots, saved, err>>

NoBox == <<>>

Init ==
    /\ pc = "extract"
    /\ page = 0
    /\ text_to_anonymize = "unset"
    /\ analyzed_character_sets = <<>>
    /\ detections = <<>>
    /\ completeBoundingBox = NoBox
    /\ merged = 0
    /\ analyzed_bounding_boxes = <<>>
    /\ annotations = <<>>
    /\ Annots = [p \in 1..MaxPages |-> <<>>]
    /\ saved = 0
    /\ err = "none"

\* ----------------------------------------------------------------- cell 1
\* extract_pages yields the next page_layout.
NextPage ==
    /\ pc = "extract"
    /\ page < MaxPages
    /\ page' = page + 1
    /\ UNCHANGED <<pc, text_to_anonymize, analyzed_character_sets, detections,
                   completeBoundingBox, merged, analyzed_bounding_boxes, annotations,
                   Annots, saved, err>>

\* The entry appended for one result of a container.
CharacterSet(characters, result) ==
    [characters |-> Slice(characters, result.start, result.end), result |-> result]

\* The class of a text: str.isspace() is true of a non-empty text of
\* whitespace characters only.
TextClass(isspace) == IF isspace THEN "whitespace" ELSE "text"

\* One LTTextContainer of the current page: get_text, analyze, the print
\* guarded by isspace (no effect on the state), the collection of the LTChar
\* boxes and one appended entry per analyzer result.  An element that is no
\* LTTextContainer is skipped by the isinstance test and changes nothing.
\*   characters : the LTChar boxes of the container's lines
\*   newline    : the text ends with the LTAnno newline pdfminer adds to a
\*                line, a character of the text that is no LTChar
\*   isspace    : text_to_anonymize.isspace(); a text without an LTChar is
\*                empty (isspace() is False) or the newline alone (True)
TextContainer ==
    /\ pc = "extract"
    /\ page >= 1
    /\ \E characters \in LineBlocks, newline \in BOOLEAN, isspace \in BOOLEAN :
         LET textLen == Len(characters) + (IF newline THEN 1 ELSE 0) IN
         /\ characters = <<>> => isspace = newline
         /\ text_to_anonymize' = TextClass(isspace)
         /\ \E analyzer_results \in
                ListsUpTo({r \in Results(textLen) : r.start < r.end},
                          MaxResults - Len(analyzed_character_sets)) :
              /\ analyzed_character_sets' = analyzed_character_sets \o
                    [k \in 1..Len(analyzer_results) |->
                        CharacterSet(characters, analyzer_results[k])]
              /\ detections' = detections \o
                    [k \in 1..Len(analyzer_results) |->
                        [page |-> page, glyphs |-> characters]]
    /\ UNCHANGED <<pc, page, completeBoundingBox, merged, analyzed_bounding_boxes,
                   annotations, Annots, saved, err>>

\* extract_pages is exhausted: the script goes on to cell 2.
EndExtract ==
    /\ pc = "extract"
    /\ page >= 1
    /\ pc' = "boxes"
    /\ UNCHANGED <<page, text_to_anonymize, analyzed_character_sets, detections, completeBoundingBox,
                   merged, analyzed_bounding_boxes, annotations, Annots, saved, err>>

\* ----------------------------------------------------------------- cell 2
\* The entry the outer loop is at: one box is appended per iteration.
CurrentSet == analyzed_character_sets[Len(analyzed_bounding_boxes) + 1]

\* An uncaught exception: the cell stops and no later cell runs.
Raise(exception) ==
    /\ pc' = "error"
    /\ err' = exception

\* completeBoundingBox = analyzed_character_set["characters"][0].bbox
BoxInit ==
    /\ pc = "boxes"
    /\ Len(analyzed_bounding_boxes) < Len(analyzed_character_sets)
    /\ IF CurrentSet.characters = <<>>
       THEN /\ Raise("IndexError")
            /\ UNCHANGED <<completeBoundingBox, merged>>
       ELSE /\ completeBoundingBox' = CurrentSet.characters[1]
            /\ merged' = 0
            /\ pc' = "merge"
            /\ err' = err
    /\ UNCHANGED <<page, text_to_anonymize, analyzed_character_sets, detections,
                   analyzed_bounding_boxes, annotations, Annots, saved>>

\* One iteration of the inner loop over the entry's characters.
BoxMerge ==
    /\ pc = "merge"
    /\ merged < Len(CurrentSet.characters)
    /\ completeBoundingBox' =
          combine_rect(completeBoundingBox, CurrentSet.characters[merged + 1])
    /\ merged' = merged + 1
    /\ UNCHANGED <<pc, page, text_to_anonymize, analyzed_character_sets, detections,
                   analyzed_bounding_boxes, annotations, Annots, saved, err>>

\* The inner loop is exhausted: the box is appended with the entry's result.
BoxAppend ==
    /\ pc = "merge"
    /\ merged = Len(CurrentSet.characters)
    /\ analyzed_bounding_boxes' = Append(analyzed_bounding_boxes,
          [boundingBox |-> completeBoundingBox, result |-> CurrentSet.result])
    /\ pc' = "boxes"
    /\ UNCHANGED <<page, text_to_anonymize, analyzed_character_sets, detections, completeBoundingBox,
                   merged, annotations, Annots, saved, err>>

\* The outer loop is exhausted: the script goes on to cell 3.
BoxesDone ==
    /\ pc = "boxes"
    /\ Len(analyzed_bounding_boxes) = Len(analyzed_character_sets)
    /\ pc' = "open"
    /\ UNCHANGED <<page, text_to_anonymize, analyzed_character_sets, detections, completeBoundingBox,
                   merged, analyzed_bounding_boxes, annotations, Annots, saved, err>>

\* ----------------------------------------------------------------- cell 3
\* pdf = Pdf.open(...); annotations = []
OpenPdf ==
    /\ pc = "open"
    /\ annotations' = <<>>
    /\ pc' = "highlight"
    /\ UNCHANGED <<page, text_to_anonymize, analyzed_character_sets, detections, completeBoundingBox,
                   merged, analyzed_bounding_boxes, Annots, saved, err>>

\* A plausible fault: the lower-Y corners listed first.
Highlight_lowerFirst(analyzed_bounding_box) ==
    LET boundingBox == analyzed_bounding_box.boundingBox IN
    [Type |-> "Annot", Subtype |-> "Highlight",
     QuadPoints |-> <<boundingBox[1], boundingBox[2],
                      boundingBox[3], boundingBox[2],
                      boundingBox[1], boundingBox[4],
                      boundingBox[3], boundingBox[4]>>,
     Rect |-> <<boundingBox[1], boundingBox[2], boundingBox[3], boundingBox[4]>>,
     C |-> <<1, 0, 0>>, CA |-> "0.5",
     T |-> analyzed_bounding_box.result.entity_type]

\* The highlight Dictionary of one box.
Highlight(analyzed_bounding_box) ==
    LET boundingBox == analyzed_bounding_box.boundingBox IN
    [Type |-> "Annot", Subtype |-> "Highlight",
     QuadPoints |-> <<boundingBox[1], boundingBox[4],
                      boundingBox[3], boundingBox[4],
                      boundingBox[1], boundingBox[2],
                      boundingBox[3], boundingBox[2]>>,
     Rect |-> <<boundingBox[1], boundingBox[2], boundingBox[3], boundingBox[4]>>,
     C |-> <<1, 0, 0>>, CA |-> "0.5",
     T |-> analyzed_bounding_box.result.entity_type]

\* A plausible fault: the document is saved inside the loop as well.
MakeHighlight_saving ==
    /\ pc = "highlight"
    /\ Len(annotations) < Len(analyzed_bounding_boxes)
    /\ annotations' = Append(annotations,
          Highlight(analyzed_bounding_boxes[Len(annotations) + 1]))
    /\ saved' = saved + 1
    /\ UNCHANGED <<pc, page, text_to_anonymize, analyzed_character_sets, detections,
                   completeBoundingBox, merged, analyzed_bounding_boxes, Annots, err>>

\* One iteration of the loop over analyzed_bounding_boxes.
MakeHighlight ==
    /\ pc = "highlight"
    /\ Len(annotations) < Len(analyzed_bounding_boxes)
    /\ annotations' = Append(annotations,
          Highlight(analyzed_bounding_boxes[Len(annotations) + 1]))
    /\ UNCHANGED <<pc, page, text_to_anonymize, analyzed_character_sets, detections, completeBoundingBox,
                   merged, analyzed_bounding_boxes, Annots, saved, err>>

\* pdf.pages[0].Annots = pdf.make_indirect(annotations)
AttachAnnots ==
    /\ pc = "highlight"
    /\ Len(annotations) = Len(analyzed_bounding_boxes)
    /\ Annots' = [Annots EXCEPT ![1] = annotations]
    /\ pc' = "save"
    /\ UNCHANGED <<page, text_to_anonymize, analyzed_character_sets, detections, completeBoundingBox,
                   merged, analyzed_bounding_boxes, annotations, saved, err>>

\* pdf.save("./sample_data/sample_annotated.pdf")
Save ==
    /\ pc = "save"
    /\ saved' = saved + 1
    /\ pc' = "done"
    /\ UNCHANGED <<page, text_to_anonymize, analyzed_character_sets, detections, completeBoundingBox,
                   merged, analyzed_bounding_boxes, annotations, Annots, err>>

\* --------------------------------------------------------- specifications
Next ==
    \/ NextPage
    \/ TextContainer
    \/ EndExtract
    \/ BoxInit
    \/ BoxMerge
    \/ BoxAppend
    \/ BoxesDone
    \/ OpenPdf
    \/ MakeHighlight
    \/ AttachAnnots
    \/ Save

\* The whole notebook, on documents whose glyphs sit on one line.
Spec == Init /\ [][Next]_vars

\* The loop body of cell 2 on the entry of one container with one result, the glyph boxes
\* being any rectangles and the text having one character per glyph: the
\* state cell 1 leaves for such a document.
InitMerge ==
    /\ pc = "boxes"
    /\ page = 1
    /\ text_to_anonymize = TextClass(FALSE)
    /\ \E characters \in FreeBlocks :
         \E result \in Results(Len(characters)) :
            /\ result.start < result.end
            /\ result.entity_type = "PERSON"
            /\ analyzed_character_sets = <<CharacterSet(characters, result)>>
            /\ detections = <<[page |-> 1, glyphs |-> characters]>>
    /\ completeBoundingBox = NoBox
    /\ merged = 0
    /\ analyzed_bounding_boxes = <<>>
    /\ annotations = <<>>
    /\ Annots = [p \in 1..MaxPages |-> <<>>]
    /\ saved = 0
    /\ err = "none"

NextMerge ==
    \/ BoxInit
    \/ BoxMerge
    \/ BoxAppend

SpecMerge == InitMerge /\ [][NextMerge]_vars

\* ------------------------------------------------------------------ claims
\* The smallest element of a non-empty set of numbers, and the largest.
MinOf(S) == CHOOSE m \in S : \A e \in S : m <= e
MaxOf(S) == CHOOSE m \in S : \A e \in S : m >= e

\* (min x0, min y0, max x1, max y1) over exactly the glyphs glyphs[start:end].
SpanBox(glyphs, start, end) ==
    LET selected == {glyphs[t] : t \in (start + 1)..end} IN
    <<MinOf({g[1] : g \in selected}), MinOf({g[2] : g \in selected}),
      MaxOf({g[3] : g \in selected}), MaxOf({g[4] : g \in selected})>>

\* Rectangle R contains rectangle g.
Contains(R, g) == R[1] <= g[1] /\ R[2] <= g[2] /\ R[3] >= g[3] /\ R[4] >= g[4]

\* C1: for every glyph sequence and every span with
\* 0 <= start < end <= len(glyphs), the box produced for the span is the
\* minimum of x0 and y0 and the maximum of x1 and y1 over all the glyphs of
\* glyphs[start:end] and over no other glyph, however the glyphs are placed.
C1_BoxIsMinMaxOfSpan ==
    \A k \in 1..Len(analyzed_bounding_boxes) :
        LET result == analyzed_bounding_boxes[k].result
            glyphs == detections[k].glyphs
        IN  (0 <= result.start /\ result.start < result.end
                /\ result.end <= Len(glyphs))
            => analyzed_bounding_boxes[k].boundingBox
                  = SpanBox(glyphs, result.start, result.end)

\* A box is done for a span of two glyphs that the first glyph's min-corner
\* and the last glyph's max-corner do not bound.
C1_Witness ==
    \E k \in 1..Len(analyzed_bounding_boxes) :
        LET result == analyzed_bounding_boxes[k].result
            glyphs == detections[k].glyphs
        IN  /\ result.end <= Len(glyphs)
            /\ result.end - result.start = 2
            /\ analyzed_bounding_boxes[k].boundingBox
                  # <<glyphs[result.start + 1][1], glyphs[result.start + 1][2],
                       glyphs[result.end][3], glyphs[result.end][4]>>

\* C2: after every step of the merge loop and at its end the accumulated
\* rectangle contains the rectangle of every glyph merged so far (the first
\* glyph, which initialises it, included), and no step of the loop shrinks it.
C2_MonotonicContainment ==
    /\ [](pc = "merge" =>
            \A t \in 1..max(merged, 1) :
                Contains(completeBoundingBox, CurrentSet.characters[t]))
    /\ [](\A k \in 1..Len(analyzed_bounding_boxes) :
            \A t \in 1..Len(analyzed_character_sets[k].characters) :
                Contains(analyzed_bounding_boxes[k].boundingBox,
                         analyzed_character_sets[k].characters[t]))
    /\ [][(pc = "merge" /\ pc' = "merge")
            => Contains(completeBoundingBox', completeBoundingBox)]_vars

\* The loop has merged two glyphs and the accumulator is neither of them.
C2_Witness ==
    /\ pc = "merge"
    /\ merged = 2
    /\ completeBoundingBox # CurrentSet.characters[1]
    /\ completeBoundingBox # CurrentSet.characters[2]

\* The fold of combine_rect over a sequence of rectangles from an accumulator.
RECURSIVE FoldRects(_, _)
FoldRects(acc, rects) ==
    IF rects = <<>> THEN acc
    ELSE FoldRects(combine_rect(acc, Head(rects)), Tail(rects))

\* The permutations of 1..n.
Perms(n) == {f \in [1..n -> 1..n] : \A a, b \in 1..n : a # b => f[a] # f[b]}

\* C3: combine_rect is commutative, associative and idempotent: folding the
\* rectangles of an entry in any permutation, from any of them as the first
\* accumulator, gives the box the loop produced.  The three laws are stated
\* of the entry's rectangles, associativity with any third rectangle.
C3_AnyOrderSameBox ==
    \A k \in 1..Len(analyzed_bounding_boxes) :
        LET cs == analyzed_character_sets[k].characters IN
        /\ \A p \in Perms(Len(cs)), m \in 1..Len(cs) :
              FoldRects(cs[m], [t \in 1..Len(cs) |-> cs[p[t]]])
                 = analyzed_bounding_boxes[k].boundingBox
        /\ \A a \in 1..Len(cs) : combine_rect(cs[a], cs[a]) = cs[a]
        /\ \A a \in 1..(Len(cs) - 1) :
              /\ combine_rect(cs[a], cs[a + 1]) = combine_rect(cs[a + 1], cs[a])
              /\ \A c \in Rects :
                    combine_rect(combine_rect(cs[a], cs[a + 1]), c)
                       = combine_rect(cs[a], combine_rect(cs[a + 1], c))

\* A box is done for two different glyphs neither of which is the box.
C3_Witness ==
    \E k \in 1..Len(analyzed_bounding_boxes) :
        LET cs == analyzed_character_sets[k].characters IN
        /\ Len(cs) = 2
        /\ cs[1] # cs[2]
        /\ analyzed_bounding_boxes[k].boundingBox # cs[1]
        /\ analyzed_bounding_boxes[k].boundingBox # cs[2]

\* The outer loop of cell 2 has reached entry k.
Attempted(k) ==
    /\ pc # "extract"
    /\ \/ k <= Len(analyzed_bounding_boxes)
       \/ k = Len(analyzed_bounding_boxes) + 1 /\ pc \in {"merge", "error"}

\* C4: a result that selects zero glyphs fails with a recoverable outcome
\* of its own: the run is not stopped by it, and no box is made for it.
C4_EmptySpanIsRecoverable ==
    \A k \in 1..Len(analyzed_character_sets) :
        (analyzed_character_sets[k].characters = <<>> /\ Attempted(k))
        => /\ pc # "error"
           /\ err # "IndexError"
           /\ k > Len(analyzed_bounding_boxes)

\* C5: a result whose end lies beyond the container's glyphs is rejected:
\* its span is never clamped to the glyphs there are, and no highlight is
\* made for it.
C5_OutOfRangeRejected ==
    \A k \in 1..Len(annotations) :
        analyzed_character_sets[k].result.end <= Len(detections[k].glyphs)

\* The script has stopped.
Stopped == pc \in {"done", "error"}

\* The entries that select at least one glyph.
NonEmptySets ==
    {k \in 1..Len(analyzed_character_sets) :
        analyzed_character_sets[k].characters # <<>>}

\* C6: when one result of a run selects zero glyphs and another selects
\* some, the run still ends with the document saved and with one highlight
\* for every result that selects a glyph.
C6_BadSpanDoesNotAbort ==
    (/\ Stopped
     /\ NonEmptySets # {}
     /\ NonEmptySets # 1..Len(analyzed_character_sets))
    => /\ pc = "done"
       /\ saved = 1
       /\ Len(annotations) = Cardinality(NonEmptySets)

\* C7: a container whose text is entirely whitespace adds no entry to
\* analyzed_character_sets, whatever the analyzer returns for it.
C7_WhitespaceBlockSkipped ==
    [][text_to_anonymize' = "whitespace"
          => analyzed_character_sets' = analyzed_character_sets]_vars

\* C8: the highlights are made one per box in the order of the boxes; each
\* has the QuadPoints x0,y1, x1,y1, x0,y0, x1,y0, the Rect x0,y0,x1,y1 and
\* the title of the entity type of the result its box came from.
C8_HighlightOfBox ==
    /\ Len(annotations) <= Len(analyzed_bounding_boxes)
    /\ pc \in {"save", "done"} => Len(annotations) = Len(analyzed_bounding_boxes)
    /\ \A k \in 1..Len(annotations) :
          LET b == analyzed_bounding_boxes[k].boundingBox IN
          /\ annotations[k].QuadPoints
                = <<b[1], b[4], b[3], b[4], b[1], b[2], b[3], b[2]>>
          /\ annotations[k].Rect = <<b[1], b[2], b[3], b[4]>>
          /\ annotations[k].T = analyzed_character_sets[k].result.entity_type

\* Two highlights are made, of different titles, and the run has ended.
C8_Witness ==
    /\ pc = "done"
    /\ Len(annotations) = 2
    /\ annotations[1].T # annotations[2].T

\* The results found in the containers of page p.
FoundOnPage(p) == {k \in 1..Len(detections) : detections[k].page = p}

\* C9: at the end of a run the annotation list of every page holds one
\* highlight for every result found on that page and none for another's.
C9_AnnotationsOnTheirPage ==
    pc = "done" =>
        \A p \in 1..MaxPages : Len(Annots[p]) = Cardinality(FoundOnPage(p))

\* C10: the document is saved at most once, and only when every entry has
\* its box, every box its highlight and the highlights are assigned to the
\* page; an exception stops the run for good with nothing saved.
C10_AllOrNothing ==
    /\ [](saved <= 1)
    /\ [](saved = 1 =>
            /\ pc = "done"
            /\ Len(analyzed_bounding_boxes) = Len(analyzed_character_sets)
            /\ Len(annotations) = Len(analyzed_bounding_boxes)
            /\ Annots[1] = annotations)
    /\ [](pc = "error" <=> err # "none")
    /\ [](pc = "error" => saved = 0)
    /\ [][pc = "error" => UNCHANGED vars]_vars

\* An exception has stopped the run after a box was made.
C10_Witness ==
    /\ pc = "error"
    /\ Len(analyzed_bounding_boxes) = 1

====
